---- MODULE Spec2Model ----
(***************************************************************************)
(* Model of emblem_exporter.py: the metadata scan (export / clear / purge) *)
(* of scan_metadata, its progress indicator on long scans, the snapshot   *)
(* replay of import_metadata, and the emblems value normalisation.         *)
(* Python strings are sequences of one                                     *)
(* character strings, so that find, split and slicing are computed as the  *)
(* interpreter computes them.                                              *)
(***************************************************************************)
EXTENDS Integers, Sequences, FiniteSets, TLC

VARIABLES
    pc,                        \* position of the running function
    clear, purge, setonly,     \* parameters of scan_metadata
    metadata_filter,
    METADATA_TYPES,
    METADATA_FIELD_INDICATOR,
    items_to_process,
    nr_items_to_process,
    show_progress,
    json_data,
    processed_items,
    last_processed_percentage,
    processed_percentage,
    items_exported,
    items_found,
    items_cleared,
    item_idx,                  \* position of the for loop over items_to_process
    item_metadata,
    line_idx,                  \* position of the for loop over item_metadata
    metadata_dictionary,
    metadata_found,
    no_clearing_failures,
    item_path,
    pending,                   \* the backend call about to be spawned
    calls,                     \* every backend call spawned so far, with its result
    progress_log,              \* the percentages logged by the progress indicator
    halted,                    \* the scan loop was left through the SystemExit handler
    snapshot,                  \* the content of the export file, if written
    exit_status,               \* the process exit status, once it ended
    file_content,              \* import: the snapshot file given to import_metadata
    existing,                  \* import: the paths that are a file or a directory
    field_idx,                 \* import: position of the loop over metadata_dict
    no_import_failures,
    swallowed,                 \* import: termination signals caught by the bare except
    failed_log,                \* the items (import: fields) logged as failed
    norm_in,                   \* normalisation: the backend's emblems text
    norm_tags,                 \* normalisation: the tag list the backend holds
    norm_out                   \* normalisation: the exported value

vars == << pc, clear, purge, setonly, metadata_filter, METADATA_TYPES,
           METADATA_FIELD_INDICATOR, items_to_process, nr_items_to_process,
           show_progress, json_data, processed_items, last_processed_percentage,
           processed_percentage, items_exported, items_found, items_cleared,
           item_idx, item_metadata, line_idx, metadata_dictionary, metadata_found,
           no_clearing_failures, item_path, pending, calls, progress_log, halted,
           snapshot, exit_status, file_content, existing, field_idx,
           no_import_failures, swallowed, failed_log, norm_in, norm_tags, norm_out >>

(***************************************************************************)
(* Bounds of the model.                                                    *)
(***************************************************************************)
MaxItems == 2       \* entries of the scanned tree
MaxEntries == 2     \* paths of an imported snapshot
MaxValueLen == 4    \* length of a raw emblems text fed to the normalisation
MaxTags == 2        \* length of a tag list held by the backend
MaxOver == 2        \* items of a long scan beyond MIN_PROGRESS_INDICATOR_ITEMS

(***************************************************************************)
(* Python values.  None and an optional value are the empty and the one    *)
(* element sequence; a value that is a str or a list carries its type.     *)
(***************************************************************************)
None == << >>
Some(x) == << x >>
Str(s) == [t |-> "str", v |-> s]
List(l) == [t |-> "list", v |-> l]
Num(n) == [t |-> "num", v |-> n]
Obj(d) == [t |-> "dict", v |-> d]

(***************************************************************************)
(* str.find, slicing, str.split, str.splitlines and str.join.              *)
(***************************************************************************)
StartsWithAt(s, sub, i) ==
    /\ i + Len(sub) - 1 <= Len(s)
    /\ \A k \in 1..Len(sub) : s[i + k - 1] = sub[k]

\* str.find(sub): the lowest 0-based index where sub starts, or -1
Find(s, sub) ==
    LET hits == { i \in 1..(Len(s) + 1) : StartsWithAt(s, sub, i) }
    IN  IF hits = {} THEN -1
        ELSE (CHOOSE i \in hits : \A j \in hits : i <= j) - 1

\* s[n:]
SliceFrom(s, n) == IF n >= Len(s) THEN << >> ELSE SubSeq(s, n + 1, Len(s))

\* s[:n]
SliceTo(s, n) == IF n <= 0 THEN << >> ELSE SubSeq(s, 1, n)

\* s[1:-1]
SliceInner(s) == IF Len(s) <= 2 THEN << >> ELSE SubSeq(s, 2, Len(s) - 1)

RECURSIVE Split(_, _)
\* str.split(sep) for a non-empty separator
Split(s, sep) ==
    LET i == Find(s, sep)
    IN  IF i = -1 THEN << s >>
        ELSE << SliceTo(s, i) >> \o Split(SliceFrom(s, i + Len(sep)), sep)

\* str.splitlines(): split at line ends, without a last empty line
splitlines(s) ==
    LET parts == Split(s, << "\n" >>)
    IN  IF parts[Len(parts)] = << >> THEN SubSeq(parts, 1, Len(parts) - 1)
        ELSE parts

RECURSIVE Join(_, _)
\* sep.join(parts)
Join(parts, sep) ==
    IF parts = << >> THEN << >>
    ELSE IF Len(parts) = 1 THEN parts[1]
    ELSE parts[1] \o sep \o Join(Tail(parts), sep)

(***************************************************************************)
(* Constants of the program and the literals it uses.                      *)
(***************************************************************************)
PATH_FIELD_INDICATOR == << "l", "o", "c", "a", "l", " ", "p", "a", "t", "h", ":", " " >>
PATH_FIELD_INDICATOR_LEN == Len(PATH_FIELD_INDICATOR)
MIN_PROGRESS_INDICATOR_ITEMS == 10000
PROGRESS_INDICATOR_PERCENT_INTERVAL == 10
TYPE_FILTERS == << << "f", "i", "l", "e" >>, << "f", "o", "l", "d", "e", "r" >> >>

emblems == << "e", "m", "b", "l", "e", "m", "s" >>
annotation == << "a", "n", "n", "o", "t", "a", "t", "i", "o", "n" >>
icon == << "i", "c", "o", "n" >>
MetadataPrefix == << "m", "e", "t", "a", "d", "a", "t", "a", ":", ":" >>
ColonColon == << ":", ":" >>
ColonSpace == << ":", " " >>
CommaSpace == << ",", " " >>
Comma == << "," >>
EmptyListText == << "[", "]" >>
Blank == << >>

(***************************************************************************)
(* The scanned tree, as os.walk reports it: the files and the folders of   *)
(* the root, then the files of the folder.                                 *)
(***************************************************************************)
scan_path == << "/", "r" >>
Digit(i) == << << "1" >>, << "2" >>, << "3" >>, << "4" >>, << "5" >>, << "6" >> >>[i]
Names(letter, n) == [i \in 1..n |-> << letter >> \o Digit(i)]

\* os.path.join(dirpath, name)
JoinPath(dirpath, name) == dirpath \o << "/" >> \o name

\* a root with at most one file and one folder, the folder with at most one file
Trees ==
    { t \in [nf : 0..1, nd : 0..1, nb : 0..1] :
        /\ t.nf + t.nd + t.nb <= MaxItems
        /\ (t.nb > 0 => t.nd > 0) }

\* os.walk(base_path), top down
Walk(base_path, t) ==
    << [dirpath |-> base_path, dirnames |-> Names("d", t.nd), filenames |-> Names("f", t.nf)] >>
    \o [i \in 1..t.nd |->
          [dirpath |-> JoinPath(base_path, Names("d", t.nd)[i]),
           dirnames |-> << >>,
           filenames |-> IF i = 1 THEN Names("g", t.nb) ELSE << >>]]

\* the body of the loop of path_crawler on one (dirpath, dirnames, filenames)
CrawlDir(w, type_filter) ==
    (IF type_filter = None \/ type_filter = Some(TYPE_FILTERS[1])
     THEN [i \in 1..Len(w.filenames) |-> JoinPath(w.dirpath, w.filenames[i])]
     ELSE << >>)
    \o
    (IF type_filter = None \/ type_filter = Some(TYPE_FILTERS[2])
     THEN [i \in 1..Len(w.dirnames) |-> JoinPath(w.dirpath, w.dirnames[i])]
     ELSE << >>)

RECURSIVE CrawlAll(_, _)
CrawlAll(walk, type_filter) ==
    IF walk = << >> THEN << >>
    ELSE CrawlDir(Head(walk), type_filter) \o CrawlAll(Tail(walk), type_filter)

\* path_crawler, given what os.walk(base_path) yields
path_crawler(walk, type_filter, recurse) ==
    IF walk = << >> THEN << >>
    ELSE IF ~recurse THEN CrawlDir(Head(walk), type_filter)
    ELSE CrawlAll(walk, type_filter)

(***************************************************************************)
(* The metadata backend: what `gio info -a metadata:: item` prints for an  *)
(* item, given whether it has a local path and the text of each attribute. *)
(***************************************************************************)
Opt(S) == { None } \cup { Some(x) : x \in S }

EmblemsTexts == { EmptyListText, << "[", "a", ",", " ", "b", "]" >> }
AnnotationTexts == { Blank, << "n" >> }
IconTexts == { Blank, << "i" >>, << "i", ":", " ", "j" >> }

AttrLine(name, text) ==
    IF text = None THEN << >>
    ELSE << " ", " " >> \o MetadataPrefix \o name \o ColonSpace \o text[1] \o << "\n" >>

GioInfo(item, has_path, e, a, c) ==
    (IF has_path THEN PATH_FIELD_INDICATOR \o item \o << "\n" >> ELSE << >>)
    \o << "a", "t", "t", "r", "i", "b", "u", "t", "e", "s", ":", "\n" >>
    \o AttrLine(emblems, e) \o AttrLine(annotation, a) \o AttrLine(icon, c)

Outputs(item) ==
    { GioInfo(item, hp, e, a, c) :
        hp \in BOOLEAN, e \in Opt(EmblemsTexts), a \in Opt(AnnotationTexts),
        c \in Opt(IconTexts) }

NoValue == [t |-> "none", v |-> << >>]
Call(op, path, field, value) ==
    [op |-> op, path |-> path, field |-> field, value |-> value, result |-> "running"]

(***************************************************************************)
(* Dictionaries keep insertion order, as Python's do: a sequence of        *)
(* << key, value >> pairs with distinct keys.                              *)
(***************************************************************************)
Keys(d) == { d[i][1] : i \in 1..Len(d) }
Get(d, k) == d[CHOOSE i \in 1..Len(d) : d[i][1] = k][2]

\* d.update({k: v})
Update(d, k, v) ==
    IF k \in Keys(d)
    THEN [i \in 1..Len(d) |-> IF d[i][1] = k THEN << k, v >> ELSE d[i]]
    ELSE Append(d, << k, v >>)

(***************************************************************************)
(* scan_metadata: what one line of a record is, lines 115-131.             *)
(*   plain    the line holds no metadata field                             *)
(*   raise    the line raises (no local path yet, or the unpacking of the  *)
(*            split fails)                                                 *)
(*   field    the line holds field `name` with text `value`                *)
(* item_path is the local path known after the line.                       *)
(***************************************************************************)
ParseLine(metadata_line, path_before, indicator) ==
    LET item_path_index == Find(metadata_line, PATH_FIELD_INDICATOR)
        path_after ==
            IF item_path_index # -1
            THEN Some(SliceFrom(metadata_line, item_path_index + PATH_FIELD_INDICATOR_LEN))
            ELSE path_before
        metadata_tag_index == Find(metadata_line, indicator)
        parts == Split(Split(metadata_line, ColonColon)[2], ColonSpace)
        result(kind, name, value) ==
            [kind |-> kind, item_path |-> path_after, name |-> name, value |-> value]
    IN  IF metadata_tag_index = -1 THEN result("plain", << >>, << >>)
        ELSE IF path_after = None THEN result("raise", << >>, << >>)
        ELSE IF Len(parts) # 2 THEN result("raise", << >>, << >>)
        ELSE result("field", parts[1], parts[2])

\* NormalizeEmblems without lines 137-140: the split is exported as it is
NormalizeEmblems_KeepsSplit(metadata_value) ==
    Split(SliceInner(metadata_value), CommaSpace)

\* lines 135-140: the exported value of an emblems text
NormalizeEmblems(metadata_value) ==
    LET split == Split(SliceInner(metadata_value), CommaSpace)
    IN  IF Len(split) = 1 /\ split[1] = Blank THEN << >> ELSE split

\* lines 134-140: the value the export works on
ExportValue(metadata_field_name, metadata_value) ==
    IF metadata_field_name = emblems
    THEN List(NormalizeEmblems(metadata_value))
    ELSE Str(metadata_value)

\* IgnoredEmpty without the second alternative of line 143: an empty tag list
\* is not ignored
IgnoredEmpty_ScalarsOnly(set_only, metadata_field_name, value) ==
    /\ set_only
    /\ metadata_field_name # annotation /\ value = Str(Blank)

\* IgnoredEmpty without the setonly test of line 142: empty values are
\* ignored in every export
IgnoredEmpty_Always(set_only, metadata_field_name, value) ==
    \/ (metadata_field_name # annotation /\ value = Str(Blank))
    \/ (metadata_field_name = emblems /\ Len(value.v) = 0)

\* lines 142-143: the set-only filter ignores the field
IgnoredEmpty(set_only, metadata_field_name, value) ==
    /\ set_only
    /\ \/ (metadata_field_name # annotation /\ value = Str(Blank))
       \/ (metadata_field_name = emblems /\ Len(value.v) = 0)

\* BlankAnnotation without the test of line 147: nothing is held back
BlankAnnotation_Never(metadata_field_name, value) == FALSE

\* line 147: a blank annotation is never stored
BlankAnnotation(metadata_field_name, value) ==
    metadata_field_name = annotation /\ value = Str(Blank)

\* lines 133-148: metadata_dictionary after a recognized field, in export mode
ExportField(dictionary, set_only, metadata_field_name, metadata_value) ==
    LET value == ExportValue(metadata_field_name, metadata_value)
    IN  IF IgnoredEmpty(set_only, metadata_field_name, value) THEN dictionary
        ELSE IF BlankAnnotation(metadata_field_name, value) THEN dictionary
        ELSE Update(dictionary, metadata_field_name, value)

\* ClearCall without the test of line 157: an emblems value of '[]' is reset too
ClearCall_ResetsEmptyList(path, metadata_field_name, metadata_value) ==
    IF metadata_field_name = emblems
    THEN Some(Call("set", path, emblems, Str(EmptyListText)))
    ELSE IF metadata_value # Blank
         THEN Some(Call("set", path, metadata_field_name, Str(Blank)))
         ELSE None

\* lines 152-168: the backend call of clear mode for a recognized field, if any
ClearCall(path, metadata_field_name, metadata_value) ==
    IF metadata_field_name = emblems
    THEN IF metadata_value # EmptyListText
         THEN Some(Call("set", path, emblems, Str(EmptyListText)))
         ELSE None
    ELSE IF metadata_value # Blank
         THEN Some(Call("set", path, metadata_field_name, Str(Blank)))
         ELSE None

\* PurgeCall resetting emblems as clear mode does, instead of lines 184-185
PurgeCall_WritesEmptyList(path, metadata_field_name, metadata_value) ==
    IF metadata_field_name = annotation
    THEN IF metadata_value # Blank
         THEN Some(Call("set", path, annotation, Str(Blank)))
         ELSE None
    ELSE IF metadata_field_name = emblems
    THEN Some(Call("set", path, emblems, Str(EmptyListText)))
    ELSE Some(Call("unset", path, metadata_field_name, NoValue))

\* PurgeCall with the emptiness tests of clear mode in front of lines 183-185
PurgeCall_SkipsEmpty(path, metadata_field_name, metadata_value) ==
    IF metadata_field_name = annotation
    THEN IF metadata_value # Blank
         THEN Some(Call("set", path, annotation, Str(Blank)))
         ELSE None
    ELSE IF metadata_value # (IF metadata_field_name = emblems THEN EmptyListText ELSE Blank)
    THEN Some(Call("unset", path, metadata_field_name, NoValue))
    ELSE None

\* lines 170-186: the backend call of purge mode for a recognized field, if any
PurgeCall(path, metadata_field_name, metadata_value) ==
    IF metadata_field_name = annotation
    THEN IF metadata_value # Blank
         THEN Some(Call("set", path, annotation, Str(Blank)))
         ELSE None
    ELSE Some(Call("unset", path, metadata_field_name, NoValue))

\* lines 151-186
ClearOrPurgeCall(purging, path, metadata_field_name, metadata_value) ==
    IF ~purging THEN ClearCall(path, metadata_field_name, metadata_value)
    ELSE PurgeCall(path, metadata_field_name, metadata_value)

(***************************************************************************)
(* json.dumps(json_data, sort_keys=True, ...): the paths in lexicographic  *)
(* order, and the fields of each path in lexicographic order.              *)
(***************************************************************************)
CodePoints ==
    << "\n", " ", ",", "/", "1", "2", "3", "4", "5", "6", ":", "[", "]",
       "a", "b", "c", "d", "e", "f", "g", "h", "i", "j", "k", "l", "m", "n",
       "o", "p", "q", "r", "s", "t", "u", "v", "w", "x", "y", "z" >>
Ord(ch) == CHOOSE i \in 1..Len(CodePoints) : CodePoints[i] = ch

RECURSIVE StrLess(_, _)
StrLess(a, b) ==
    IF b = << >> THEN FALSE
    ELSE IF a = << >> THEN TRUE
    ELSE IF Head(a) = Head(b) THEN StrLess(Tail(a), Tail(b))
    ELSE Ord(Head(a)) < Ord(Head(b))

RECURSIVE SortKeys(_)
SortKeys(d) ==
    IF d = << >> THEN << >>
    ELSE LET m == CHOOSE i \in 1..Len(d) : \A j \in 1..Len(d) : ~StrLess(d[j][1], d[i][1])
         IN  << d[m] >> \o SortKeys([i \in 1..(Len(d) - 1) |-> IF i < m THEN d[i] ELSE d[i + 1]])

json_dumps(data) ==
    LET sorted == SortKeys(data)
    IN  [i \in 1..Len(sorted) |-> << sorted[i][1], SortKeys(sorted[i][2]) >>]

(***************************************************************************)
(* scan_metadata                                                           *)
(***************************************************************************)
cfgVars == << clear, purge, setonly, metadata_filter >>
setupVars == << METADATA_TYPES, METADATA_FIELD_INDICATOR, items_to_process,
                nr_items_to_process, show_progress >>
countVars == << items_exported, items_found, items_cleared >>
progressVars == << processed_items, last_processed_percentage, processed_percentage,
                   progress_log >>
itemVars == << item_metadata, line_idx, metadata_dictionary, metadata_found,
               no_clearing_failures, item_path >>
endVars == << halted, snapshot, exit_status >>
importVars == << file_content, existing, field_idx, no_import_failures, swallowed >>
normVars == << norm_in, norm_tags, norm_out >>

\* the metadata field filters given on the command line
Filters ==
    { emblems,
      emblems \o Comma \o annotation,
      annotation \o Comma \o icon }

\* the calls of scan_metadata made by the main block, lines 368-369 and 385-386
Modes ==
    { [clear |-> FALSE, purge |-> FALSE, setonly |-> FALSE],
      [clear |-> FALSE, purge |-> FALSE, setonly |-> TRUE],
      [clear |-> TRUE, purge |-> FALSE, setonly |-> FALSE],
      [clear |-> TRUE, purge |-> TRUE, setonly |-> FALSE] }

ScanLoopPcs ==
    { "loop", "query", "wait_info", "line", "set", "wait_set", "count", "found",
      "cleared", "failed", "progress" }

Idle ==
    /\ METADATA_TYPES = << >>
    /\ METADATA_FIELD_INDICATOR = << >>
    /\ nr_items_to_process = 0
    /\ show_progress = FALSE
    /\ processed_items = 0
    /\ last_processed_percentage = 0
    /\ processed_percentage = 0
    /\ items_exported = 0
    /\ items_found = 0
    /\ items_cleared = 0
    /\ item_idx = 0
    /\ item_metadata = << >>
    /\ line_idx = 0
    /\ metadata_dictionary = << >>
    /\ metadata_found = FALSE
    /\ no_clearing_failures = TRUE
    /\ item_path = None
    /\ pending = None
    /\ calls = << >>
    /\ progress_log = << >>
    /\ halted = FALSE
    /\ snapshot = None
    /\ exit_status = None
    /\ field_idx = 0
    /\ no_import_failures = TRUE
    /\ swallowed = 0
    /\ failed_log = << >>

ScanInit ==
    /\ pc = "start"
    /\ \E m \in Modes : clear = m.clear /\ purge = m.purge /\ setonly = m.setonly
    /\ metadata_filter \in Filters
    /\ items_to_process = << >>
    /\ json_data = << >>
    /\ Idle
    /\ file_content = NoValue
    /\ existing = {}
    /\ norm_in = << >> /\ norm_tags = << >> /\ norm_out = << >>

\* lines 61-97: the field filter, the enumeration of the tree, the counters
Start ==
    /\ pc = "start"
    /\ IF metadata_filter = emblems
       THEN /\ METADATA_TYPES' = << emblems >>
            /\ METADATA_FIELD_INDICATOR' = MetadataPrefix \o emblems
       ELSE /\ METADATA_TYPES' = Split(metadata_filter, Comma)
            /\ METADATA_FIELD_INDICATOR' = MetadataPrefix
    /\ \E t \in Trees, type_filter \in Opt({TYPE_FILTERS[1], TYPE_FILTERS[2]}),
          recurse \in BOOLEAN :
          items_to_process' = path_crawler(Walk(scan_path, t), type_filter, recurse)
    /\ nr_items_to_process' = Len(items_to_process')
    /\ show_progress' = (nr_items_to_process' > MIN_PROGRESS_INDICATOR_ITEMS)
    /\ json_data' = << >>
    /\ processed_items' = 0
    /\ last_processed_percentage' = 0
    /\ processed_percentage' = 0
    /\ items_exported' = 0
    /\ items_found' = 0
    /\ items_cleared' = 0
    /\ pc' = "loop"
    /\ UNCHANGED << cfgVars, item_idx, itemVars, pending, calls, progress_log, endVars,
                    importVars, failed_log, normVars >>

\* lines 100-102: the next item, or the end of the loop
NextItem ==
    /\ pc = "loop"
    /\ IF item_idx < Len(items_to_process)
       THEN /\ item_idx' = item_idx + 1
            /\ processed_items' = IF show_progress THEN processed_items + 1
                                  ELSE processed_items
            /\ pc' = "query"
       ELSE /\ pc' = "report"
            /\ UNCHANGED << item_idx, processed_items >>
    /\ UNCHANGED << cfgVars, setupVars, json_data, last_processed_percentage,
                    processed_percentage, progress_log, countVars, itemVars, pending,
                    calls, endVars, importVars, failed_log, normVars >>

item == items_to_process[item_idx]

\* line 105: gio info is spawned
SpawnQuery ==
    /\ pc = "query"
    /\ calls' = Append(calls, Call("info", item, << >>, NoValue))
    /\ pc' = "wait_info"
    /\ UNCHANGED << cfgVars, setupVars, json_data, progressVars, countVars, item_idx,
                    itemVars, pending, endVars, importVars, failed_log, normVars >>

SetLast(log, result) == [log EXCEPT ![Len(log)].result = result]

\* lines 105-112: gio info returns a record, or fails (check=True)
QueryReturns ==
    /\ pc = "wait_info"
    /\ \/ \E out \in Outputs(item) :
            /\ calls' = SetLast(calls, "ok")
            /\ item_metadata' = splitlines(out)
            /\ metadata_dictionary' = << >>
            /\ metadata_found' = FALSE
            /\ no_clearing_failures' = TRUE
            /\ item_path' = None
            /\ line_idx' = 1
            /\ pc' = "line"
       \/ /\ calls' = SetLast(calls, "fail")
          /\ pc' = "failed"
          /\ UNCHANGED itemVars
    /\ UNCHANGED << cfgVars, setupVars, json_data, progressVars, countVars, item_idx,
                    pending, endVars, importVars, failed_log, normVars >>

\* ProcessLine without the test of line 133: an export resets the fields too
ProcessLine_IgnoresMode ==
    /\ pc = "line"
    /\ line_idx <= Len(item_metadata)
    /\ LET parsed == ParseLine(item_metadata[line_idx], item_path, METADATA_FIELD_INDICATOR)
           recognized == parsed.kind = "field" /\ \E i \in 1..Len(METADATA_TYPES) :
                                                     METADATA_TYPES[i] = parsed.name
           call == ClearOrPurgeCall(purge, parsed.item_path[1], parsed.name, parsed.value)
       IN  /\ item_path' = parsed.item_path
           /\ IF parsed.kind = "raise"
              THEN /\ pc' = "failed"
                   /\ UNCHANGED << line_idx, metadata_dictionary, metadata_found, pending >>
              ELSE IF ~recognized
              THEN /\ pc' = "line"
                   /\ line_idx' = line_idx + 1
                   /\ UNCHANGED << metadata_dictionary, metadata_found, pending >>
              ELSE IF FALSE
              THEN /\ metadata_dictionary' =
                        ExportField(metadata_dictionary, setonly, parsed.name, parsed.value)
                   /\ pc' = "line"
                   /\ line_idx' = line_idx + 1
                   /\ UNCHANGED << metadata_found, pending >>
              ELSE IF call = None
              THEN /\ pc' = "line"
                   /\ line_idx' = line_idx + 1
                   /\ UNCHANGED << metadata_dictionary, metadata_found, pending >>
              ELSE /\ metadata_found' = TRUE
                   /\ pending' = call
                   /\ pc' = "set"
                   /\ UNCHANGED << line_idx, metadata_dictionary >>
    /\ UNCHANGED << cfgVars, setupVars, json_data, progressVars, countVars, item_idx,
                    item_metadata, no_clearing_failures, calls, endVars, importVars,
                    failed_log, normVars >>

\* lines 114-200: one line of the record
ProcessLine ==
    /\ pc = "line"
    /\ line_idx <= Len(item_metadata)
    /\ LET parsed == ParseLine(item_metadata[line_idx], item_path, METADATA_FIELD_INDICATOR)
           recognized == parsed.kind = "field" /\ \E i \in 1..Len(METADATA_TYPES) :
                                                     METADATA_TYPES[i] = parsed.name
           call == ClearOrPurgeCall(purge, parsed.item_path[1], parsed.name, parsed.value)
       IN  /\ item_path' = parsed.item_path
           /\ IF parsed.kind = "raise"
              THEN /\ pc' = "failed"
                   /\ UNCHANGED << line_idx, metadata_dictionary, metadata_found, pending >>
              ELSE IF ~recognized
              THEN /\ pc' = "line"
                   /\ line_idx' = line_idx + 1
                   /\ UNCHANGED << metadata_dictionary, metadata_found, pending >>
              ELSE IF ~clear
              THEN /\ metadata_dictionary' =
                        ExportField(metadata_dictionary, setonly, parsed.name, parsed.value)
                   /\ pc' = "line"
                   /\ line_idx' = line_idx + 1
                   /\ UNCHANGED << metadata_found, pending >>
              ELSE IF call = None
              THEN /\ pc' = "line"
                   /\ line_idx' = line_idx + 1
                   /\ UNCHANGED << metadata_dictionary, metadata_found, pending >>
              ELSE /\ metadata_found' = TRUE
                   /\ pending' = call
                   /\ pc' = "set"
                   /\ UNCHANGED << line_idx, metadata_dictionary >>
    /\ UNCHANGED << cfgVars, setupVars, json_data, progressVars, countVars, item_idx,
                    item_metadata, no_clearing_failures, calls, endVars, importVars,
                    failed_log, normVars >>

\* lines 159, 166, 175, 184: gio set is spawned
SpawnSet ==
    /\ pc = "set"
    /\ calls' = Append(calls, pending[1])
    /\ pending' = None
    /\ pc' = "wait_set"
    /\ UNCHANGED << cfgVars, setupVars, json_data, progressVars, countVars, item_idx,
                    itemVars, endVars, importVars, failed_log, normVars >>

\* lines 159-197: gio set returns, or fails and the failure is noted
SetReturns ==
    /\ pc = "wait_set"
    /\ \/ /\ calls' = SetLast(calls, "ok")
          /\ UNCHANGED no_clearing_failures
       \/ /\ calls' = SetLast(calls, "fail")
          /\ no_clearing_failures' = FALSE
    /\ line_idx' = line_idx + 1
    /\ pc' = "line"
    /\ UNCHANGED << cfgVars, setupVars, json_data, progressVars, countVars, item_idx,
                    item_metadata, metadata_dictionary, metadata_found, item_path,
                    pending, endVars, importVars, failed_log, normVars >>

\* The locals of the loop body are not read again once the lines of the
\* record are done with, or once the item failed or the loop was left: the
\* model forgets them there.
ForgetRecord ==
    /\ item_metadata' = << >>
    /\ line_idx' = 0
    /\ metadata_dictionary' = << >>
    /\ item_path' = None

ForgetItem ==
    /\ ForgetRecord
    /\ metadata_found' = FALSE
    /\ no_clearing_failures' = TRUE

\* lines 205-208: the entry of the item is stored
StoreItem ==
    /\ pc = "line"
    /\ line_idx > Len(item_metadata)
    /\ IF Len(metadata_dictionary) > 0
       THEN /\ json_data' = Update(json_data, item_path[1], metadata_dictionary)
            /\ pc' = "count"
       ELSE /\ pc' = "found"
            /\ UNCHANGED json_data
    /\ ForgetRecord
    /\ UNCHANGED << cfgVars, setupVars, progressVars, countVars, item_idx,
                    metadata_found, no_clearing_failures, pending, calls, endVars,
                    importVars, failed_log, normVars >>

\* line 209
CountExported ==
    /\ pc = "count"
    /\ items_exported' = items_exported + 1
    /\ pc' = "found"
    /\ UNCHANGED << cfgVars, setupVars, json_data, progressVars, items_found,
                    items_cleared, item_idx, itemVars, pending, calls, endVars,
                    importVars, failed_log, normVars >>

\* lines 211-213
CountFound ==
    /\ pc = "found"
    /\ items_found' = IF clear /\ metadata_found THEN items_found + 1 ELSE items_found
    /\ pc' = "cleared"
    /\ UNCHANGED << cfgVars, setupVars, json_data, progressVars, items_exported,
                    items_cleared, item_idx, itemVars, pending, calls, endVars,
                    importVars, failed_log, normVars >>

\* lines 211, 214-215
CountCleared ==
    /\ pc = "cleared"
    /\ items_cleared' = IF clear /\ no_clearing_failures THEN items_cleared + 1
                        ELSE items_cleared
    /\ pc' = "progress"
    /\ ForgetItem
    /\ UNCHANGED << cfgVars, setupVars, json_data, progressVars, items_exported,
                    items_found, item_idx, pending, calls, endVars, importVars,
                    failed_log, normVars >>

\* ItemFailed without the handler of lines 220-221: the exception leaves the
\* loop over the items
ItemFailed_AbortsRun ==
    /\ pc = "failed"
    /\ failed_log' = Append(failed_log, item)
    /\ pc' = "report"
    /\ ForgetItem
    /\ UNCHANGED << cfgVars, setupVars, json_data, progressVars, countVars, item_idx,
                    pending, calls, endVars, importVars, normVars >>

\* lines 220-221: the item failed, the scan goes on
ItemFailed ==
    /\ pc = "failed"
    /\ failed_log' = Append(failed_log, item)
    /\ pc' = "progress"
    /\ ForgetItem
    /\ UNCHANGED << cfgVars, setupVars, json_data, progressVars, countVars, item_idx,
                    pending, calls, endVars, importVars, normVars >>

\* Progress without the test of line 231: 100% is logged too
Progress_LogsHundred ==
    /\ pc = "progress"
    /\ IF show_progress
       THEN /\ processed_percentage' = (processed_items * 100) \div nr_items_to_process
            /\ IF /\ processed_percentage' % PROGRESS_INDICATOR_PERCENT_INTERVAL = 0
                  /\ last_processed_percentage # processed_percentage'
               THEN /\ last_processed_percentage' = processed_percentage'
                    /\ progress_log' = Append(progress_log, processed_percentage')
               ELSE UNCHANGED << last_processed_percentage, progress_log >>
       ELSE UNCHANGED << processed_percentage, last_processed_percentage, progress_log >>
    /\ pc' = "loop"
    /\ UNCHANGED << cfgVars, setupVars, json_data, processed_items, countVars, item_idx,
                    itemVars, pending, calls, endVars, importVars, failed_log, normVars >>

\* lines 223-232: the progress indicator
Progress ==
    /\ pc = "progress"
    /\ IF show_progress
       THEN /\ processed_percentage' = (processed_items * 100) \div nr_items_to_process
            /\ IF /\ processed_percentage' % PROGRESS_INDICATOR_PERCENT_INTERVAL = 0
                  /\ last_processed_percentage # processed_percentage'
               THEN /\ last_processed_percentage' = processed_percentage'
                    /\ progress_log' = IF processed_percentage' # 100
                                       THEN Append(progress_log, processed_percentage')
                                       ELSE progress_log
               ELSE UNCHANGED << last_processed_percentage, progress_log >>
       ELSE UNCHANGED << processed_percentage, last_processed_percentage, progress_log >>
    /\ pc' = "loop"
    /\ UNCHANGED << cfgVars, setupVars, json_data, processed_items, countVars, item_idx,
                    itemVars, pending, calls, endVars, importVars, failed_log, normVars >>

\* Interrupt without the handler of lines 235-236: SystemExit(0) ends the
\* process
Interrupt_EndsProcess ==
    /\ pc \in ScanLoopPcs
    /\ calls' = IF calls # << >> /\ calls[Len(calls)].result = "running"
                THEN SetLast(calls, "killed") ELSE calls
    /\ halted' = TRUE
    /\ exit_status' = Some(0)
    /\ pc' = "exit"
    /\ ForgetItem
    /\ pending' = None
    /\ UNCHANGED << cfgVars, setupVars, json_data, progressVars, countVars, item_idx,
                    snapshot, importVars, failed_log, normVars >>

\* a termination signal inside the try of line 99: the handler raises
\* SystemExit(0), a running gio is abandoned, lines 188-189, 217-218 pass it
\* on and lines 235-236 end the loop
Interrupt ==
    /\ pc \in ScanLoopPcs
    /\ calls' = IF calls # << >> /\ calls[Len(calls)].result = "running"
                THEN SetLast(calls, "killed") ELSE calls
    /\ halted' = TRUE
    /\ pc' = "report"
    /\ ForgetItem
    /\ pending' = None
    /\ UNCHANGED << cfgVars, setupVars, json_data, progressVars, countVars, item_idx,
                    snapshot, exit_status, importVars, failed_log, normVars >>

\* lines 238-262: the summary, or the export file
Report ==
    /\ pc = "report"
    /\ snapshot' = IF ~clear /\ Len(json_data) > 0 THEN Some(json_dumps(json_data))
                   ELSE snapshot
    /\ exit_status' = Some(0)
    /\ pc' = "done"
    /\ UNCHANGED << cfgVars, setupVars, json_data, progressVars, countVars, item_idx,
                    itemVars, pending, calls, halted, importVars, failed_log, normVars >>

\* a termination signal outside the try (before line 99 or after line 236):
\* SystemExit(0) ends the process; a file that was being written is left as
\* open() truncated it
Terminate ==
    /\ pc \in { "start", "report" }
    /\ \/ UNCHANGED snapshot
       \/ /\ pc = "report" /\ ~clear /\ Len(json_data) > 0
          /\ snapshot' = Some(<< >>)
    /\ exit_status' = Some(0)
    /\ pc' = "exit"
    /\ UNCHANGED << cfgVars, setupVars, json_data, progressVars, countVars, item_idx,
                    itemVars, pending, calls, halted, importVars, failed_log, normVars >>

ScanNext ==
    \/ Start \/ NextItem \/ SpawnQuery \/ QueryReturns \/ ProcessLine \/ SpawnSet
    \/ SetReturns \/ StoreItem \/ CountExported \/ CountFound \/ CountCleared
    \/ ItemFailed \/ Progress \/ Interrupt \/ Report \/ Terminate

ScanSpec == ScanInit /\ [][ScanNext]_vars

(***************************************************************************)
(* The progress indicator on long scans, lines 79-102 and 217-238.  A scan *)
(* of more than MIN_PROGRESS_INDICATOR_ITEMS items is followed item by     *)
(* item; of the body of the loop (lines 104-221) only its end is kept,     *)
(* normal or by the failure of the item, and of the log of failures only   *)
(* whether there was one.                                                  *)
(***************************************************************************)
Totals ==
    { 10, MIN_PROGRESS_INDICATOR_ITEMS }
    \cup { MIN_PROGRESS_INDICATOR_ITEMS + k : k \in 1..MaxOver }

ProgressInit ==
    /\ pc = "crawled"
    /\ clear = FALSE /\ purge = FALSE /\ setonly = FALSE
    /\ metadata_filter = emblems
    /\ items_to_process = << >>
    /\ json_data = << >>
    /\ Idle
    /\ file_content = NoValue
    /\ existing = {}
    /\ norm_in = << >> /\ norm_tags = << >> /\ norm_out = << >>

\* lines 79-95: the number of the enumerated items, the indicator, the counters
Enumerated ==
    /\ pc = "crawled"
    /\ nr_items_to_process' \in Totals
    /\ show_progress' = (nr_items_to_process' > MIN_PROGRESS_INDICATOR_ITEMS)
    /\ processed_items' = 0
    /\ last_processed_percentage' = 0
    /\ processed_percentage' = 0
    /\ items_exported' = 0
    /\ items_found' = 0
    /\ items_cleared' = 0
    /\ pc' = "loop"
    /\ UNCHANGED << cfgVars, METADATA_TYPES, METADATA_FIELD_INDICATOR, items_to_process,
                    json_data, progress_log, item_idx, itemVars, pending, calls,
                    endVars, importVars, failed_log, normVars >>

\* lines 100-102: the next item, or the end of the loop
TakeItem ==
    /\ pc = "loop"
    /\ IF item_idx < nr_items_to_process
       THEN /\ item_idx' = item_idx + 1
            /\ processed_items' = IF show_progress THEN processed_items + 1
                                  ELSE processed_items
            /\ pc' = "body"
       ELSE /\ pc' = "report"
            /\ UNCHANGED << item_idx, processed_items >>
    /\ UNCHANGED << cfgVars, setupVars, json_data, last_processed_percentage,
                    processed_percentage, progress_log, countVars, itemVars, pending,
                    calls, endVars, importVars, failed_log, normVars >>

\* lines 104-215: the body of the loop ends without an exception
BodyEnds ==
    /\ pc = "body"
    /\ pc' = "progress"
    /\ UNCHANGED << cfgVars, setupVars, json_data, progressVars, countVars, item_idx,
                    itemVars, pending, calls, endVars, importVars, failed_log, normVars >>

\* lines 104-220: the body of the loop raises
BodyRaises ==
    /\ pc = "body"
    /\ pc' = "failed"
    /\ UNCHANGED << cfgVars, setupVars, json_data, progressVars, countVars, item_idx,
                    itemVars, pending, calls, endVars, importVars, failed_log, normVars >>

\* lines 220-221: the failure is logged, the scan goes on
FailureLogged ==
    /\ pc = "failed"
    /\ failed_log' = << "item" >>
    /\ pc' = "progress"
    /\ UNCHANGED << cfgVars, setupVars, json_data, progressVars, countVars, item_idx,
                    itemVars, pending, calls, endVars, importVars, normVars >>

ProgressNext ==
    \/ Enumerated \/ TakeItem \/ BodyEnds \/ BodyRaises \/ FailureLogged
    \/ Progress \/ Report

ProgressSpec == ProgressInit /\ [][ProgressNext]_vars

(***************************************************************************)
(* import_metadata.  The snapshot file holds text that json.loads rejects, *)
(* or a JSON value: a number, an array of paths, or an object from paths   *)
(* to a number or to an object of fields.                                  *)
(***************************************************************************)
Garbage == [t |-> "garbage", v |-> << >>]

SnapshotPaths == [i \in 1..MaxEntries |-> JoinPath(scan_path, Names("f", MaxEntries)[i])]

TagList == << << "a" >>, << "b" >> >>

\* the values a snapshot gives the emblems and the annotation field
EmblemsValues == { List(<< >>), List(TagList), Num(7) }
AnnotationValues == { Str(<< "n" >>) }

FieldMaps ==
    { (IF a = None THEN << >> ELSE << << annotation, a[1] >> >>)
      \o (IF e = None THEN << >> ELSE << << emblems, e[1] >> >>) :
        a \in Opt(AnnotationValues), e \in Opt(EmblemsValues) }

ItemValues == { Num(7) } \cup { Obj(d) : d \in FieldMaps }

FileContents ==
    { Garbage, Num(7) }
    \cup { List(SubSeq(SnapshotPaths, 1, n)) : n \in 1..MaxEntries }
    \cup UNION { { Obj([i \in 1..n |-> << SnapshotPaths[i], f[i] >>]) :
                     f \in [1..n -> ItemValues] } : n \in 0..MaxEntries }

\* json.loads(file_content): the value, unless the text is no JSON
json_loads(content) ==
    IF content = Garbage THEN [raises |-> TRUE, value |-> NoValue]
    ELSE [raises |-> FALSE, value |-> content]

\* len(x): defined on strings, lists and dicts
HasLen(x) == x.t \in { "str", "list", "dict" }

\* the i-th element of the iteration over a list (its elements) or a dict (its keys)
IterKey(x, i) == IF x.t = "dict" THEN x.v[i][1] ELSE x.v[i]

\* lines 290-303: the backend call for a field of an item, or the exception
\* raised before gio is spawned
ImportCall(path, metadata, value) ==
    IF metadata = emblems
    THEN IF ~HasLen(value) THEN [raises |-> TRUE, call |-> None]
         ELSE IF Len(value.v) = 0
         THEN [raises |-> FALSE, call |-> Some(Call("set", path, emblems, Str(EmptyListText)))]
         ELSE [raises |-> FALSE, call |-> Some(Call("setv", path, emblems, value))]
    ELSE IF value.t # "str" THEN [raises |-> TRUE, call |-> None]
         ELSE [raises |-> FALSE, call |-> Some(Call("set", path, metadata, value))]

scanLocals == << METADATA_TYPES, METADATA_FIELD_INDICATOR, nr_items_to_process,
                 show_progress, last_processed_percentage, processed_percentage,
                 progress_log, items_exported, items_found, items_cleared,
                 item_metadata, line_idx, metadata_found, no_clearing_failures,
                 halted, snapshot >>

ImportInit ==
    /\ pc = "import"
    /\ clear = FALSE /\ purge = FALSE /\ setonly = FALSE
    /\ metadata_filter = << >>
    /\ items_to_process = 0
    /\ json_data = NoValue
    /\ Idle
    /\ file_content \in FileContents
    /\ existing \in SUBSET { SnapshotPaths[i] : i \in 1..MaxEntries }
    /\ norm_in = << >> /\ norm_tags = << >> /\ norm_out = << >>

\* lines 265-281, 321-322: the file is read and decoded
LoadSnapshot ==
    /\ pc = "import"
    /\ LET loaded == json_loads(file_content)
       IN  IF loaded.raises
           THEN \* lines 274-276
                /\ exit_status' = Some(5)
                /\ pc' = "exit"
                /\ UNCHANGED << json_data, items_to_process >>
           ELSE IF ~HasLen(loaded.value)
           THEN \* line 272 raises a TypeError that nothing catches
                /\ json_data' = loaded.value
                /\ exit_status' = Some(1)
                /\ pc' = "exit"
                /\ UNCHANGED items_to_process
           ELSE /\ json_data' = loaded.value
                /\ items_to_process' = Len(loaded.value.v)
                /\ IF items_to_process' > 0
                   THEN pc' = "path" /\ UNCHANGED exit_status
                   ELSE pc' = "done" /\ exit_status' = Some(0)
    /\ processed_items' = 0
    /\ UNCHANGED << cfgVars, scanLocals, item_idx, metadata_dictionary, item_path,
                    pending, calls, file_content, existing, field_idx,
                    no_import_failures, swallowed, failed_log, normVars >>

\* NextPath without the test of line 286: a path that does not exist is
\* handled as one that does
NextPath_AppliesMissing ==
    /\ pc = "path"
    /\ IF item_idx < items_to_process
       THEN LET key == IterKey(json_data, item_idx + 1)
            IN  /\ item_idx' = item_idx + 1
                /\ item_path' = Some(key)
                /\ no_import_failures' = TRUE
                /\ IF json_data.t # "dict"
                   THEN /\ pc' = "exit"
                        /\ exit_status' = Some(1)
                        /\ UNCHANGED << metadata_dictionary, field_idx >>
                   ELSE IF Get(json_data.v, key).t # "dict"
                   THEN /\ metadata_dictionary' = << >>
                        /\ pc' = "exit"
                        /\ exit_status' = Some(1)
                        /\ UNCHANGED field_idx
                   ELSE /\ metadata_dictionary' = Get(json_data.v, key).v
                        /\ field_idx' = 0
                        /\ pc' = "field"
                        /\ UNCHANGED exit_status
       ELSE /\ pc' = "done"
            /\ exit_status' = Some(0)
            /\ UNCHANGED << item_idx, item_path, no_import_failures,
                            metadata_dictionary, field_idx >>
    /\ UNCHANGED << cfgVars, scanLocals, items_to_process, json_data, processed_items,
                    pending, calls, file_content, existing, swallowed, failed_log,
                    normVars >>

\* lines 283-289, 314-319: the next path of the snapshot, or the end
NextPath ==
    /\ pc = "path"
    /\ IF item_idx < items_to_process
       THEN LET key == IterKey(json_data, item_idx + 1)
            IN  /\ item_idx' = item_idx + 1
                /\ item_path' = Some(key)
                /\ no_import_failures' = TRUE
                /\ IF key \notin existing
                   THEN \* line 315
                        /\ pc' = "path"
                        /\ UNCHANGED << metadata_dictionary, field_idx, exit_status >>
                   ELSE IF json_data.t # "dict"
                   THEN \* line 287 raises a TypeError that nothing catches
                        /\ pc' = "exit"
                        /\ exit_status' = Some(1)
                        /\ UNCHANGED << metadata_dictionary, field_idx >>
                   ELSE IF Get(json_data.v, key).t # "dict"
                   THEN \* line 289 raises a TypeError that nothing catches
                        /\ metadata_dictionary' = << >>
                        /\ pc' = "exit"
                        /\ exit_status' = Some(1)
                        /\ UNCHANGED field_idx
                   ELSE /\ metadata_dictionary' = Get(json_data.v, key).v
                        /\ field_idx' = 0
                        /\ pc' = "field"
                        /\ UNCHANGED exit_status
       ELSE /\ pc' = "done"
            /\ exit_status' = Some(0)
            /\ UNCHANGED << item_idx, item_path, no_import_failures,
                            metadata_dictionary, field_idx >>
    /\ UNCHANGED << cfgVars, scanLocals, items_to_process, json_data, processed_items,
                    pending, calls, file_content, existing, swallowed, failed_log,
                    normVars >>

metadata == metadata_dictionary[field_idx][1]

\* lines 289-303: the next field of the item, up to the spawning of gio
NextField ==
    /\ pc = "field"
    /\ IF field_idx < Len(metadata_dictionary)
       THEN LET f == metadata_dictionary[field_idx + 1]
                c == ImportCall(item_path[1], f[1], f[2])
            IN  /\ field_idx' = field_idx + 1
                /\ IF c.raises
                   THEN \* lines 307-309
                        /\ no_import_failures' = FALSE
                        /\ failed_log' = Append(failed_log, f[1])
                        /\ pc' = "field"
                        /\ UNCHANGED pending
                   ELSE /\ pending' = c.call
                        /\ pc' = "spawn"
                        /\ UNCHANGED << no_import_failures, failed_log >>
       ELSE /\ pc' = "credit"
            /\ UNCHANGED << field_idx, no_import_failures, failed_log, pending >>
    /\ UNCHANGED << cfgVars, scanLocals, items_to_process, json_data, processed_items,
                    item_idx, metadata_dictionary, item_path, calls, exit_status,
                    file_content, existing, swallowed, normVars >>

\* lines 296, 299, 302: gio set is spawned
SpawnImport ==
    /\ pc = "spawn"
    /\ calls' = Append(calls, pending[1])
    /\ pending' = None
    /\ pc' = "wait"
    /\ UNCHANGED << cfgVars, scanLocals, items_to_process, json_data, processed_items,
                    item_idx, metadata_dictionary, item_path, exit_status, importVars,
                    failed_log, normVars >>

\* lines 296-309: gio set returns, or fails and the failure is noted
ImportReturns ==
    /\ pc = "wait"
    /\ \/ /\ calls' = SetLast(calls, "ok")
          /\ pc' = "log"
          /\ UNCHANGED << no_import_failures, failed_log >>
       \/ /\ calls' = SetLast(calls, "fail")
          /\ no_import_failures' = FALSE
          /\ failed_log' = Append(failed_log, metadata)
          /\ pc' = "field"
    /\ UNCHANGED << cfgVars, scanLocals, items_to_process, json_data, processed_items,
                    item_idx, metadata_dictionary, item_path, pending, exit_status,
                    file_content, existing, field_idx, swallowed, normVars >>

\* line 305
LogSet ==
    /\ pc = "log"
    /\ pc' = "field"
    /\ UNCHANGED << cfgVars, scanLocals, items_to_process, json_data, processed_items,
                    item_idx, metadata_dictionary, item_path, pending, calls,
                    exit_status, importVars, failed_log, normVars >>

\* lines 311-312
CreditItem ==
    /\ pc = "credit"
    /\ processed_items' = IF no_import_failures THEN processed_items + 1
                          ELSE processed_items
    /\ pc' = "path"
    /\ UNCHANGED << cfgVars, scanLocals, items_to_process, json_data, item_idx,
                    metadata_dictionary, item_path, pending, calls, exit_status,
                    importVars, failed_log, normVars >>

\* a termination signal inside the try of line 290: the handler raises
\* SystemExit(0), a running gio is abandoned, and the bare except of line 307
\* catches it as it catches a failure of gio
SignalInTry ==
    /\ pc \in { "spawn", "wait", "log" }
    /\ calls' = IF pc = "wait" THEN SetLast(calls, "killed") ELSE calls
    /\ pending' = None
    /\ swallowed' = swallowed + 1
    /\ no_import_failures' = FALSE
    /\ failed_log' = Append(failed_log, metadata)
    /\ pc' = "field"
    /\ UNCHANGED << cfgVars, scanLocals, items_to_process, json_data, processed_items,
                    item_idx, metadata_dictionary, item_path, exit_status,
                    file_content, existing, field_idx, normVars >>

\* a termination signal outside that try: SystemExit(0) ends the process
SignalOutsideTry ==
    /\ pc \in { "import", "path", "field", "credit" }
    /\ exit_status' = Some(0)
    /\ pc' = "exit"
    /\ UNCHANGED << cfgVars, scanLocals, items_to_process, json_data, processed_items,
                    item_idx, metadata_dictionary, item_path, pending, calls,
                    importVars, failed_log, normVars >>

ImportNext ==
    \/ LoadSnapshot \/ NextPath \/ NextField \/ SpawnImport \/ ImportReturns
    \/ LogSet \/ CreditItem \/ SignalInTry \/ SignalOutsideTry

ImportSpec == ImportInit /\ [][ImportNext]_vars

(***************************************************************************)
(* The normalisation of an emblems value on export, lines 134-140, on the  *)
(* texts the backend prints for a tag list and on arbitrary short texts.   *)
(***************************************************************************)
TagWords == { << "a" >>, << "b", "c" >> }
ValueChars == { "[", "]", ",", " ", "a" }

RECURSIVE SeqsUpTo(_, _)
\* the sequences over S of length at most n
SeqsUpTo(S, n) ==
    IF n = 0 THEN { << >> }
    ELSE LET shorter == SeqsUpTo(S, n - 1)
         IN  shorter \cup { Append(q, x) : q \in shorter, x \in S }

\* what gio info prints for a string list attribute
GioList(tags) == << "[" >> \o Join(tags, CommaSpace) \o << "]" >>

NormInit ==
    /\ pc = "value"
    /\ \/ /\ norm_tags \in { Some(tags) : tags \in SeqsUpTo(TagWords, MaxTags) }
          /\ norm_in = GioList(norm_tags[1])
       \/ /\ norm_tags = None
          /\ norm_in \in SeqsUpTo(ValueChars, MaxValueLen)
    /\ norm_out = None
    /\ clear = FALSE /\ purge = FALSE /\ setonly = FALSE
    /\ metadata_filter = emblems
    /\ items_to_process = << >>
    /\ json_data = << >>
    /\ Idle
    /\ file_content = NoValue
    /\ existing = {}

\* lines 134-140
Normalize ==
    /\ pc = "value"
    /\ norm_out' = Some(ExportValue(emblems, norm_in))
    /\ pc' = "exported"
    /\ UNCHANGED << cfgVars, setupVars, json_data, progressVars, countVars, item_idx,
                    itemVars, pending, calls, endVars, importVars, failed_log,
                    norm_in, norm_tags >>

NormNext == Normalize

NormSpec == NormInit /\ [][NormNext]_vars

(***************************************************************************)
(* What a record says, read off its text without the parser of the scan:   *)
(* a field line is two blanks, 'metadata::', a field name, ': ' and the    *)
(* value text.                                                             *)
(***************************************************************************)
FieldNames == { emblems, annotation, icon }
FieldPrefix(name) == << " ", " " >> \o MetadataPrefix \o name \o ColonSpace
HasPrefix(line, prefix) == StartsWithAt(line, prefix, 1)
Contains(text, sub) == \E i \in 1..(Len(text) + 1) : StartsWithAt(text, sub, i)
IsFieldLine(line, name) == HasPrefix(line, FieldPrefix(name))
FieldText(line, name) == SliceFrom(line, Len(FieldPrefix(name)))
IsPathLine(line) == HasPrefix(line, PATH_FIELD_INDICATOR)

\* the fields a record holds, and the text of a field it holds
FieldsOf(record) ==
    { name \in FieldNames : \E i \in 1..Len(record) : IsFieldLine(record[i], name) }
TextOf(record, name) ==
    FieldText(record[CHOOSE i \in 1..Len(record) : IsFieldLine(record[i], name)], name)

\* a well formed record: one local path line, ahead of the field lines, and
\* field values that hold neither of the separators ': ' and '::'
WellFormed(record) ==
    /\ Cardinality({ i \in 1..Len(record) : IsPathLine(record[i]) }) = 1
    /\ Len(record) > 0 /\ IsPathLine(record[1])
    /\ \A name \in FieldsOf(record) :
          /\ ~Contains(TextOf(record, name), ColonSpace)
          /\ ~Contains(TextOf(record, name), ColonColon)

Types == { METADATA_TYPES[i] : i \in 1..Len(METADATA_TYPES) }

\* the recognized fields of a record with a non-empty value
NonEmptyFields(record) ==
    { name \in FieldsOf(record) \cap Types :
        TextOf(record, name) # (IF name = emblems THEN EmptyListText ELSE Blank) }

\* the lines of the record of the current item are all processed
RecordDone == pc = "line" /\ line_idx > Len(item_metadata)

\* the backend calls made for the current item after its query
LastInfo ==
    CHOOSE i \in 1..Len(calls) :
        calls[i].op = "info" /\ \A j \in (i + 1)..Len(calls) : calls[j].op # "info"
ItemCalls == SubSeq(calls, LastInfo + 1, Len(calls))
CallsFor(name) == { i \in 1..Len(ItemCalls) : ItemCalls[i].field = name }

(***************************************************************************)
(* C1: in clear mode (clear, not purge), once the lines of a well formed   *)
(* record are processed, exactly one set call was issued for each          *)
(* recognized field with a non-empty value ('[]' written to emblems, ''    *)
(* to a scalar field) and none for any other field, whatever the results   *)
(* of the earlier calls; and the step of lines 214-215 adds the item to    *)
(* items_cleared if and only if every one of these calls succeeded.        *)
(***************************************************************************)
C1_OneSetPerField ==
    (clear /\ ~purge /\ RecordDone /\ WellFormed(item_metadata)) =>
        /\ Len(ItemCalls) = Cardinality(NonEmptyFields(item_metadata))
        /\ \A name \in NonEmptyFields(item_metadata) : Cardinality(CallsFor(name)) = 1
        /\ \A i \in 1..Len(ItemCalls) :
              /\ ItemCalls[i].op = "set"
              /\ ItemCalls[i].path = item
              /\ ItemCalls[i].value =
                    Str(IF ItemCalls[i].field = emblems THEN EmptyListText ELSE Blank)

C1_CreditIffAllSucceeded ==
    /\ (clear /\ ~purge /\ pc = "cleared" /\ pc' = "progress") =>
          ((items_cleared' = items_cleared + 1)
              <=> \A i \in 1..Len(ItemCalls) : ItemCalls[i].result = "ok")
    /\ (items_cleared' # items_cleared) =>
          (pc = "cleared" /\ items_cleared' = items_cleared + 1)

C5_PurgeUnsetsTagList ==
    (clear /\ purge) =>
        \A i \in 1..Len(calls) :
            /\ calls[i].field = emblems =>
                  (calls[i].op = "unset" /\ calls[i].value = NoValue)
            /\ calls[i].op \in { "set", "setv" } =>
                  (/\ calls[i].op = "set"
                   /\ calls[i].field = annotation
                   /\ calls[i].value = Str(Blank))

\* a purge that has unset emblems and blanked an annotation
C5_Witness ==
    /\ clear /\ purge
    /\ \E i \in 1..Len(calls) : calls[i].field = emblems /\ calls[i].op = "unset"
    /\ \E i \in 1..Len(calls) : calls[i].field = annotation /\ calls[i].op = "set"

(***************************************************************************)
(* C6, as claimed: once the lines of a well formed record are processed in *)
(* purge mode, the fields acted on are the recognized fields with a        *)
(* non-empty value, the ones clear mode acts on, and the item is counted   *)
(* as found exactly when there is one.                                     *)
(***************************************************************************)
FieldsActedOn == { ItemCalls[i].field : i \in 1..Len(ItemCalls) }

PurgedFields(record) ==
    { name \in FieldsOf(record) \cap Types :
        name = annotation => TextOf(record, name) # Blank }

EmptyValue(value) == value = List(<< >>) \/ value = Str(Blank)
NoEmptyField(d) == \A i \in 1..Len(d) : ~EmptyValue(d[i][2])
NoEmptyEntry(data) == \A i \in 1..Len(data) : Len(data[i][2]) > 0 /\ NoEmptyField(data[i][2])

C7_SetOnlyExportsNoEmptyItem ==
    (~clear /\ setonly) =>
        /\ NoEmptyEntry(json_data)
        /\ NoEmptyField(metadata_dictionary)
        /\ snapshot # None => NoEmptyEntry(snapshot[1])
        /\ (RecordDone /\ NonEmptyFields(item_metadata) = {}) =>
              (metadata_dictionary = << >> /\ item \notin Keys(json_data))

\* after an item was exported, an item whose only recognized fields are
\* empty has gathered nothing
C7_Witness ==
    /\ ~clear /\ setonly /\ RecordDone /\ WellFormed(item_metadata)
    /\ FieldsOf(item_metadata) \cap Types # {}
    /\ NonEmptyFields(item_metadata) = {}
    /\ metadata_dictionary = << >>
    /\ Len(json_data) > 0

(***************************************************************************)
(* C8: in an export without setonly whose filter holds emblems, once the   *)
(* lines of a record are processed an emblems line of '[]' has put         *)
(* emblems, with the empty sequence, among the gathered fields, and a      *)
(* record without an emblems line has not put emblems there (with the      *)
(* default filter it has gathered nothing); and lines 205-208 give the     *)
(* item an entry, holding the gathered fields, exactly when there is one.  *)
(***************************************************************************)
C8_GatheredEmblems ==
    (~clear /\ ~setonly /\ RecordDone /\ emblems \in Types) =>
        /\ (/\ emblems \in FieldsOf(item_metadata)
            /\ TextOf(item_metadata, emblems) = EmptyListText) =>
              (/\ emblems \in Keys(metadata_dictionary)
               /\ Get(metadata_dictionary, emblems) = List(<< >>))
        /\ emblems \notin FieldsOf(item_metadata) =>
              (/\ emblems \notin Keys(metadata_dictionary)
               /\ metadata_filter = emblems => metadata_dictionary = << >>)

C8_EntryIffGathered ==
    (~clear /\ RecordDone /\ pc' # "report") =>
        IF Len(metadata_dictionary) > 0
        THEN /\ item \in Keys(json_data')
             /\ Get(json_data', item) = metadata_dictionary
        ELSE /\ item \notin Keys(json_data')
             /\ json_data' = json_data

C8_EmptyListIsNotAbsent ==
    [](C8_GatheredEmblems) /\ [][C8_EntryIffGathered]_vars

\* two items were scanned without a failure under the default filter: one
\* has an entry, with an empty emblems list, the other has none
C8_Witness ==
    /\ ~clear /\ ~setonly /\ metadata_filter = emblems
    /\ pc = "loop" /\ item_idx = 2
    /\ failed_log = << >>
    /\ Len(json_data) = 1
    /\ json_data[1][2] = << << emblems, List(<< >>) >> >>

(***************************************************************************)
(* C2, as claimed: an export scan left through the termination signal and  *)
(* run to its end has written a snapshot file, which holds every entry of  *)
(* the dictionary.                                                         *)
(***************************************************************************)
SameFields(d, e) ==
    /\ Len(d) = Len(e)
    /\ \A k \in 1..Len(d) : \E m \in 1..Len(e) : e[m] = d[k]
HoldsEntries(written, data) ==
    /\ Len(written) = Len(data)
    /\ \A i \in 1..Len(data) : \E j \in 1..Len(written) :
          written[j][1] = data[i][1] /\ SameFields(written[j][2], data[i][2])

C2_InterruptedExportWritesSnapshot ==
    (~clear /\ halted /\ pc = "done") =>
        (snapshot # None /\ HoldsEntries(snapshot[1], json_data))

(***************************************************************************)
(* C2, amended: a termination signal delivered inside the loop over the    *)
(* items of an export scan ends the loop and leaves the dictionary as it   *)
(* is, and no step of the scan ever removes or changes an entry; when the  *)
(* scan then runs to its end, it has written a snapshot holding every      *)
(* entry if the dictionary holds at least one, and no file if the          *)
(* dictionary is empty.                                                    *)
(***************************************************************************)
C2_SnapshotIffEntries ==
    (~clear /\ halted /\ pc = "done") =>
        IF Len(json_data) > 0
        THEN snapshot # None /\ HoldsEntries(snapshot[1], json_data)
        ELSE snapshot = None

C2_SignalKeepsEntries ==
    /\ (~halted /\ halted') => (pc' = "report" /\ json_data' = json_data)
    /\ (pc # "start") => SubSeq(json_data', 1, Len(json_data)) = json_data

C2_InterruptedExportKeepsEntries ==
    [](C2_SnapshotIffEntries) /\ [][C2_SignalKeepsEntries]_vars

\* the signal came while the second item was scanned: the snapshot holds the
\* entry of the first
C2_Witness ==
    /\ ~clear /\ halted /\ pc = "done"
    /\ item_idx = 2
    /\ Len(json_data) = 1
    /\ json_data[1][1] = items_to_process[1]
    /\ snapshot # None

(***************************************************************************)
(* C5 to C8 are stated above.                                              *)
(* C9: the exported value of an emblems text is a list that is never the   *)
(* one element list of the empty string; the text '[]' gives the empty     *)
(* list; and the text the backend prints for a non-empty tag list gives    *)
(* the tags, in the backend's order.                                       *)
(***************************************************************************)
C9_EmblemsNormalisation ==
    (pc = "exported") =>
        /\ norm_out[1].t = "list"
        /\ norm_out[1].v # << Blank >>
        /\ norm_in = EmptyListText => norm_out[1].v = << >>
        /\ (norm_tags # None /\ norm_tags[1] # << >>) => norm_out[1].v = norm_tags[1]

\* the text '[]' of an empty tag list was exported as the empty list
C9_Witness ==
    /\ pc = "exported"
    /\ norm_tags = Some(<< >>)
    /\ norm_in = EmptyListText
    /\ norm_out = Some(List(<< >>))

(***************************************************************************)
(* C3, as claimed: a termination signal delivered during the import ends   *)
(* the process, is not logged as a failed field, and is followed by no     *)
(* further backend call.                                                   *)
(***************************************************************************)
C3_SignalStep ==
    /\ (swallowed' > swallowed) => (pc' = "exit" /\ failed_log' = failed_log)
    /\ (swallowed > 0) => calls' = calls

C3_SignalEndsImport == [][C3_SignalStep]_vars

(***************************************************************************)
(* C4, as claimed: a snapshot that is no JSON, or no object from paths to  *)
(* objects of fields, ends import_metadata with exit status 5 before any   *)
(* backend call: no call is ever made, the import never completes, and     *)
(* the process never ends on an uncaught exception (status 1).             *)
(***************************************************************************)
Invalid(content) ==
    \/ content = Garbage
    \/ content.t # "dict"
    \/ \E i \in 1..Len(content.v) : content.v[i][2].t # "dict"

C4_InvalidSnapshotFailsFirst ==
    Invalid(file_content) =>
        /\ calls = << >>
        /\ pc # "done"
        /\ pc = "exit" => exit_status # Some(1)

(***************************************************************************)
(* C10, as claimed: when the fields of an existing path whose entry maps   *)
(* emblems to the empty array are all applied, exactly one backend call    *)
(* was made for emblems on that path, a plain set of the text '[]'; and    *)
(* if that call succeeded and every other field of the entry was set with  *)
(* success, the item is about to be counted as succeeded.                  *)
(***************************************************************************)
PathCalls(field) ==
    { i \in 1..Len(calls) : calls[i].path = item_path[1] /\ calls[i].field = field }

C10_EmptyArrayIsOneExplicitWrite ==
    (/\ pc = "credit"
     /\ emblems \in Keys(metadata_dictionary)
     /\ Get(metadata_dictionary, emblems) = List(<< >>)) =>
        /\ Cardinality(PathCalls(emblems)) = 1
        /\ \A i \in PathCalls(emblems) :
              calls[i].op = "set" /\ calls[i].value = Str(EmptyListText)
        /\ (\A name \in Keys(metadata_dictionary) :
               \E i \in PathCalls(name) : calls[i].result = "ok") => no_import_failures

(***************************************************************************)
(* C11, as claimed: the step of lines 311-312 counts an existing item as   *)
(* succeeded if and only if every field of its field map was applied, by   *)
(* a backend call for that path and field that succeeded; and no step      *)
(* takes back a backend call that succeeded (no rollback).                 *)
(***************************************************************************)
EveryFieldApplied ==
    \A name \in Keys(metadata_dictionary) :
        \E i \in PathCalls(name) : calls[i].result = "ok"

C11_CreditStep ==
    /\ (pc = "credit" /\ pc' = "path") =>
          ((processed_items' = processed_items + 1) <=> EveryFieldApplied)
    /\ (pc # "import" /\ processed_items' # processed_items) => pc = "credit"
    /\ Len(calls') >= Len(calls)
    /\ \A i \in 1..Len(calls) : calls[i].result = "ok" => calls'[i] = calls[i]

C11_CreditIffEveryFieldApplied == [][C11_CreditStep]_vars

(***************************************************************************)
(* C12: when the next path of the snapshot is not an existing file or      *)
(* directory, the step that takes it issues no backend call, does not      *)
(* count the item, logs no failed field, does not end the run and leaves   *)
(* the loop at its next path; and no backend call is ever made for a path  *)
(* that does not exist.                                                    *)
(***************************************************************************)
C12_SkipStep ==
    (pc = "path" /\ item_idx' = item_idx + 1 /\ item_path'[1] \notin existing) =>
        /\ calls' = calls /\ pending' = pending
        /\ processed_items' = processed_items
        /\ failed_log' = failed_log
        /\ exit_status' = exit_status
        /\ pc' = "path"

C12_NoCallOnMissingPath ==
    (pc \notin { "start", "value", "exported" } /\ file_content # NoValue) =>
        \A i \in 1..Len(calls) : calls[i].path \in existing

C12_MissingPathIsSkipped == [](C12_NoCallOnMissingPath) /\ [][C12_SkipStep]_vars

\* the first path of the snapshot does not exist, the second does: the import
\* ran to its end, and applied and counted the second only
C12_Witness ==
    /\ pc = "done" /\ item_idx = 2
    /\ file_content.t = "dict"
    /\ file_content.v[1][1] \notin existing
    /\ file_content.v[2][1] \in existing
    /\ calls # << >>
    /\ \A i \in 1..Len(calls) : calls[i].path = file_content.v[2][1]
    /\ processed_items = 1

(***************************************************************************)
(* C13: while a scan is not interrupted, the items queried so far are the  *)
(* enumerated items up to the current one, each once and in enumeration    *)
(* order, and all of them once the loop has ended, whatever failed; a      *)
(* failing item changes neither the dictionary nor a counter and the scan  *)
(* goes on to the progress step and the next item; and every record that   *)
(* is received starts from fresh locals, so that nothing of a failed item  *)
(* reaches the items after it.                                             *)
(***************************************************************************)
InfoCalls == SelectSeq(calls, LAMBDA c : c.op = "info")
Queried == [i \in 1..Len(InfoCalls) |-> InfoCalls[i].path]

C13_QueriedInOrder ==
    ~halted =>
        /\ Queried = SubSeq(items_to_process, 1,
                            IF pc = "query" THEN item_idx - 1 ELSE item_idx)
        /\ pc \in { "report", "done" } => Queried = items_to_process

C13_FailureStep ==
    /\ (pc = "failed" \/ pc' = "failed") =>
          (json_data' = json_data /\ countVars' = countVars)
    /\ (pc = "failed" /\ ~halted') =>
          (pc' = "progress" /\ failed_log' = Append(failed_log, item))
    /\ (pc = "wait_info" /\ pc' = "line") =>
          /\ metadata_dictionary' = << >>
          /\ metadata_found' = FALSE
          /\ no_clearing_failures' = TRUE
          /\ item_path' = None

C13_FailureNeverAbortsScan == [](C13_QueriedInOrder) /\ [][C13_FailureStep]_vars

\* the first of two items failed, the second was queried and exported, and
\* the scan ran to its end
C13_Witness ==
    /\ ~clear /\ ~halted /\ pc = "done"
    /\ Len(items_to_process) = 2
    /\ failed_log = << items_to_process[1] >>
    /\ Keys(json_data) = { items_to_process[2] }
    /\ items_exported = 1

(***************************************************************************)
(* C14, as claimed: a record none of whose lines holds the local path is   *)
(* a failure of its item, with or without metadata lines: the processing   *)
(* of its lines can only go on to the next line or end in the failure of   *)
(* the item, and it changes neither the dictionary nor a counter and       *)
(* issues no backend call.                                                 *)
(***************************************************************************)
NoPathLine(record) ==
    \A i \in 1..Len(record) : ~Contains(record[i], PATH_FIELD_INDICATOR)

C14_NoPathStep ==
    (pc = "line" /\ NoPathLine(item_metadata) /\ ~halted') =>
        /\ pc' \in { "line", "failed" }
        /\ json_data' = json_data
        /\ countVars' = countVars
        /\ calls' = calls /\ pending' = None

C14_NoPathRecordFails == [][C14_NoPathStep]_vars

(***************************************************************************)
(* C15, as claimed: a line of a record with a local path that holds a      *)
(* field outside the field filter is passed over, whatever its value text  *)
(* is: the scan goes on to the next line of the record, and the fields     *)
(* gathered, the found and failure marks, the backend calls, the           *)
(* dictionary and the counters are as they were before the line.           *)
(***************************************************************************)
ExcludedLine(line) == \E name \in FieldNames \ Types : IsFieldLine(line, name)

C15_ExcludedLineStep ==
    (/\ pc = "line" /\ line_idx <= Len(item_metadata)
     /\ item_path # None
     /\ ExcludedLine(item_metadata[line_idx])
     /\ ~halted') =>
        /\ pc' = "line" /\ line_idx' = line_idx + 1
        /\ UNCHANGED << metadata_dictionary, metadata_found, no_clearing_failures,
                        item_path, calls, pending, json_data, countVars, failed_log >>

C15_ExcludedLineIsNoError == [][C15_ExcludedLineStep]_vars

(***************************************************************************)
(* C16: in an export, with or without setonly, once the lines of a record  *)
(* are processed the gathered fields hold annotation exactly when the      *)
(* filter holds it and the record gives it a non-blank value, which is     *)
(* the value gathered; a record whose only recognized field is a blank     *)
(* annotation has gathered nothing, and an item that gathered nothing      *)
(* gets no entry in the dictionary.                                        *)
(***************************************************************************)
C16_AnnotationGathered ==
    (~clear /\ RecordDone) =>
        LET given == annotation \in FieldsOf(item_metadata) \cap Types
        IN  /\ annotation \in Keys(metadata_dictionary) <=>
                  (given /\ TextOf(item_metadata, annotation) # Blank)
            /\ annotation \in Keys(metadata_dictionary) =>
                  Get(metadata_dictionary, annotation) = Str(TextOf(item_metadata, annotation))
            /\ (/\ FieldsOf(item_metadata) \cap Types = { annotation }
                /\ TextOf(item_metadata, annotation) = Blank) =>
                  (metadata_dictionary = << >> /\ item \notin Keys(json_data))

C16_NoEntryStep ==
    (~clear /\ RecordDone /\ metadata_dictionary = << >>) => json_data' = json_data

Decades(k) == [i \in 1..k |-> PROGRESS_INDICATOR_PERCENT_INTERVAL * i]
Least(a, b) == IF a <= b THEN a ELSE b

C18_ClearedWithinFound ==
    (clear /\ pc \in { "report", "done" } /\ items_found > 0) =>
        items_cleared <= items_found

(***************************************************************************)
(* C19: an export issues no backend call but queries, and has none         *)
(* pending; a clear or purge scan gathers no field, leaves the dictionary  *)
(* empty, counts no exported item and writes no snapshot file.             *)
(***************************************************************************)
C19_ModesKeepApart ==
    /\ ~clear =>
          /\ \A i \in 1..Len(calls) : calls[i].op = "info"
          /\ pending = None
    /\ clear =>
          /\ metadata_dictionary = << >>
          /\ json_data = << >>
          /\ items_exported = 0
          /\ snapshot = None

\* a clear scan has reset a field with success, has come to its end and has
\* written nothing
C19_Witness ==
    /\ clear /\ pc = "done"
    /\ \E i \in 1..Len(calls) : calls[i].op = "set" /\ calls[i].result = "ok"
    /\ items_found > 0
    /\ json_data = << >> /\ snapshot = None

(***************************************************************************)
(* C20, as claimed: in an export, entries of the dictionary are never      *)
(* removed or changed; an entry is written only for the current item,      *)
(* once all the lines of its record are processed, and it holds the        *)
(* fields gathered; an item that fails, or is interrupted before that,     *)
(* has no entry; and the counter of exported items is incremented exactly  *)
(* when an entry is written: outside the two statements of lines 208-209   *)
(* it equals the number of entries.                                        *)
(***************************************************************************)
C20_CounterIsEntries ==
    (~clear /\ pc \notin { "start", "count" }) => items_exported = Len(json_data)

C20_EntryStep ==
    /\ (pc # "start") => SubSeq(json_data', 1, Len(json_data)) = json_data
    /\ (pc # "start" /\ json_data' # json_data) =>
          /\ RecordDone
          /\ json_data' = Append(json_data, << item, metadata_dictionary >>)
    /\ (pc' = "failed" \/ (pc \in { "query", "wait_info", "line" } /\ halted')) =>
          (json_data' = json_data /\ item \notin Keys(json_data))
    /\ (items_exported' # items_exported) =>
          (pc = "count" /\ items_exported' = items_exported + 1)

C20_ExportIsAllOrNothing == [](C20_CounterIsEntries) /\ [][C20_EntryStep]_vars

====
